---- MODULE Spec2Model ----
(***************************************************************************)
(* Synchronisation and reconciliation pipeline of the Grove backend:       *)
(* ingestion of aggregator payloads (app/sync/simplefin.py), account merge *)
(* (app/crud/account.py) and the sync job wrapper (app/sync/manager.py).   *)
(*                                                                         *)
(* Time is counted in days.  A calendar month is MonthLen days long, the   *)
(* month of day t starts at MonthStart(t).                                 *)
(***************************************************************************)
EXTENDS Integers, Sequences, FiniteSets, TLC

\* ------------------------------------------------------------------ bounds
MonthLen == 30
\* SyncRun rows, days the clock advances, the call or write of a range that may
\* fail, and the value of SIMPLEFIN_INITIAL_SYNC_MONTHS when it is set
MaxRuns == 2
BackfillRuns == 3
MaxTicks == 1
MaxFail == 4
CapMonths == 3

\* calls one thread makes to the raw-response cache, and the minutes the clock
\* of the cache may advance
MaxCalls == 2
MaxCacheMinutes == 8

\* accounts that share one (org_id, name)
MaxGroup == 6

\* ------------------------------------------------------- program constants
\* _cache_expiry_minutes
CacheExpiryMinutes == 5
LookbackMonths == 12
LookbackDays == 30
\* DUPLICATE_DETECTION_SAMPLE_SIZE and DUPLICATE_DETECTION_MIN_MATCH_RATIO (0.8)
SampleSize == 5
RatioNum == 4
RatioDen == 5

\* ---------------------------------------------------------------- universe
None == "None"
NoDay == 0 - 1
NoCat == 0 - 1

AccountIds == {"A1", "A2", "A3"}
TxnIds == {"t1", "t2"}
HoldingIds == {"h1"}
Descriptions == {"x", "y"}
PayeeNames == {"Acme"}

\* the aggregator reports A1 and A2 under the same organisation and name
ProviderName(a) == IF a = "A3" THEN "Visa" ELSE "Checking"
ProviderOrg(a) == "O1"

Now0 == 20 * MonthLen + 17
OldDay == Now0 - (LookbackMonths * LookbackDays) - 5
RecentDay == Now0 - 3
PostedDays == {OldDay, RecentDay}
Amounts == {5}

\* db    the committed database
\* sess  the uncommitted work of the merge request in flight
\* mrg   position and locals of merge_accounts
\* job   position and locals of the sync job
\* res   outcome of the last handler that returned
\* env   what the aggregator holds, and the process environment
\* now   the clock: days for the sync job and the merge, minutes for the
\*       raw-response cache
\* raw_response_cache, cache_lock   the module globals of app/sync/manager.py:
\*       the dictionary of raw responses and the thread that holds its lock
\* thr   position and locals of each worker or request thread
VARIABLES db, sess, mrg, job, res, env, now, raw_response_cache, cache_lock, thr

vars == <<db, sess, mrg, job, res, env, now, raw_response_cache, cache_lock, thr>>

\* what the single-threaded specifications leave alone
conc == <<raw_response_cache, cache_lock, thr>>

\* --------------------------------------------------------------- utilities
Range(s) == {s[i] : i \in 1..Len(s)}

RECURSIVE SeqSum(_)
SeqSum(s) == IF s = <<>> THEN 0 ELSE Head(s).amount + SeqSum(Tail(s))

\* f with key k bound to v (insert or overwrite)
Put(f, k, v) == [x \in (DOMAIN f) \cup {k} |-> IF x = k THEN v ELSE f[x]]

\* f without the keys in ks
Drop(f, ks) == [x \in (DOMAIN f) \ ks |-> f[x]]

SeqsUpTo(S, n) == UNION {[1..k -> S] : k \in 0..n}

RECURSIVE SetToSeqs(_)
SetToSeqs(S) ==
    IF S = {} THEN {<<>>}
    ELSE UNION {{<<x>> \o r : r \in SetToSeqs(S \ {x})} : x \in S}

\* ------------------------------------------------------------- ContentHasher
\* float(amount): the amount by value, whatever its decimal spelling
FloatOf(amount) == amount

\* compute_transaction_hash: SHA-256 of "account:posted_iso:float(amount):description",
\* modelled as the (collision free) signature itself; a missing posted time
\* (NoDay) is the signature's "none"
compute_transaction_hash(account_id, posted, amount, description) ==
    <<account_id, posted, FloatOf(amount),
      IF description = None THEN "" ELSE description>>

\* _convert_epoch / datetime.fromtimestamp: identity on the day count
convert_epoch(value) == value

\* ------------------------------------------------------------ empty database
\* the one sync_configs row: provider, active flag, whether config holds
\* username/password/endpoint, whether it holds a setup_token, last_sync, errors
DefaultConfig ==
    [provider_name |-> "simplefin", active |-> TRUE, credentials |-> TRUE,
     setup_token |-> TRUE, last_sync |-> NoDay, errors |-> <<>>]

\* no aggregator data, SIMPLEFIN_INITIAL_SYNC_MONTHS unset
NoEnv == [accounts |-> {}, ledger |-> {}, max_months |-> 0]

\* the database after migration and seeding: no rows but the seeded categories
SeedCategories == [n \in {"Uncategorized", "Transfer"} |-> IF n = "Transfer" THEN 1 ELSE 0]

EmptyDb ==
    [accounts |-> <<>>, transactions |-> <<>>, holdings |-> <<>>,
     balances |-> <<>>, payees |-> <<>>, orgs |-> {},
     categories |-> SeedCategories, config |-> DefaultConfig, runs |-> <<>>]

\* natural key used by merge and duplicate detection
NaturalKey(txn) == <<txn.posted, FloatOf(txn.amount),
                     IF txn.description = None THEN "" ELSE txn.description>>

TxnsOf(d, a) == {i \in DOMAIN d.transactions : d.transactions[i].account_id = a}


\* ------------------------------------------------------------ IngestionWriter
\* _find_category_by_name: the first of the names that is a category, else None
RECURSIVE find_category_by_name(_, _)
find_category_by_name(d, names) ==
    IF names = <<>> THEN NoCat
    ELSE IF Head(names) \in DOMAIN d.categories
         THEN d.categories[Head(names)]
         ELSE find_category_by_name(d, Tail(names))

\* str(account_type) of the str-and-Enum class AccountType
str_of(account_type) ==
    IF account_type = None THEN "" ELSE "AccountType." \o account_type

\* _suggest_category_for_loan_transaction; the descriptions of the model carry
\* none of the escrow keywords, so only the default branch is left
suggest_category_for_loan_transaction(d, description, account_type) ==
    LET category_id == find_category_by_name(d, <<"Transfer">>)
    IN  IF description = None \/ description = "" THEN NoCat
        ELSE IF account_type \in {"loan", "mortgage"}
                /\ category_id # NoCat /\ category_id # 0
             THEN category_id
             ELSE NoCat

\* normalize_check_payee: a name that is not a check number is returned as is;
\* a check number whose description names nobody becomes "Check"
normalize_check_payee(payee_name, description) ==
    IF payee_name \in {"Check #1"} THEN "Check" ELSE payee_name

\* _validate_splits(txn): TRUE when the check passes
validate_splits(amount, splits) ==
    splits = <<>> \/ SeqSum(splits) = amount

\* create_transaction(db, data, suggested_payee_category_id).  The Transaction
\* object is built after "splits" was popped from data, so _validate_splits
\* sees a transaction without splits.
create_transaction(d, data, suggested) ==
    LET payee_name == IF data.payee = None THEN None
                      ELSE normalize_check_payee(data.payee, data.description)
        payees1 == IF payee_name = None \/ payee_name \in DOMAIN d.payees
                   THEN d.payees
                   ELSE Put(d.payees, payee_name,
                            IF suggested # NoCat THEN suggested ELSE 0)
        splits_data == data.splits
        ok == validate_splits(data.amount, <<>>)
        splits == IF splits_data # <<>> THEN splits_data
                  ELSE <<[category_id |-> 0, amount |-> data.amount]>>
        txn == [account_id |-> data.account_id,
                posted |-> convert_epoch(data.posted),
                amount |-> data.amount,
                description |-> data.description,
                payee_id |-> payee_name,
                content_hash |-> data.content_hash,
                splits |-> splits]
    IN  IF ok
        THEN [d EXCEPT !.payees = payees1,
                       !.transactions = Put(d.transactions, data.id, txn)]
        ELSE d

\* process_transactions(db, transactions, account_id): [db, cnt]
RECURSIVE process_transactions(_, _, _)
process_transactions(d, transactions, account_id) ==
    IF transactions = <<>> THEN [db |-> d, cnt |-> 0]
    ELSE
      LET txn == Head(transactions)
          account_type == IF account_id \in DOMAIN d.accounts
                          THEN d.accounts[account_id].account_type ELSE None
          posted == IF txn.posted # 0 THEN txn.posted ELSE NoDay
          txn_hash == compute_transaction_hash(account_id, posted, txn.amount,
                                               txn.description)
          existing_by_hash ==
              \E i \in TxnsOf(d, account_id) : d.transactions[i].content_hash = txn_hash
          suggested == IF account_type \in {"loan", "mortgage"}
                       THEN suggest_category_for_loan_transaction(
                                d, txn.description, str_of(account_type))
                       ELSE NoCat
          data == [id |-> txn.id, account_id |-> account_id, posted |-> txn.posted,
                   amount |-> txn.amount, description |-> txn.description,
                   payee |-> txn.payee, splits |-> <<>>, content_hash |-> txn_hash]
      IN  IF txn.id \in DOMAIN d.transactions \/ existing_by_hash
          THEN process_transactions(d, Tail(transactions), account_id)
          ELSE LET r == process_transactions(create_transaction(d, data, suggested),
                                             Tail(transactions), account_id)
               IN  [db |-> r.db, cnt |-> r.cnt + 1]

\* process_accounts(db, [acct], org_id): an existing account takes the name and
\* org of the record, a new one is created from the record; the type that
\* classify_account gives is set on a schema object that neither path stores
process_accounts(d, acct, t) ==
    IF acct.id \in DOMAIN d.accounts
    THEN [d EXCEPT !.accounts[acct.id].name = acct.name,
                   !.accounts[acct.id].org_id = acct.org_id]
    ELSE [d EXCEPT !.accounts =
             Put(d.accounts, acct.id,
                 [name |-> acct.name, org_id |-> acct.org_id,
                  account_type |-> None, created_at |-> t])]

\* process_account_balance: one row per (account, balance-date) not yet stored;
\* balances maps (account, date) to its number of rows
process_account_balance(d, acct) ==
    IF acct.balance_date = 0 THEN d
    ELSE IF <<acct.id, acct.balance_date>> \in DOMAIN d.balances
         THEN d
         ELSE [d EXCEPT !.balances = Put(@, <<acct.id, acct.balance_date>>, 1)]

\* process_holdings(db, holdings, account_id): [db, cnt]
RECURSIVE process_holdings(_, _, _)
process_holdings(d, holdings, account_id) ==
    IF holdings = <<>> THEN [db |-> d, cnt |-> 0]
    ELSE IF Head(holdings) \in DOMAIN d.holdings
         THEN process_holdings(d, Tail(holdings), account_id)
         ELSE LET r == process_holdings(
                          [d EXCEPT !.holdings = Put(@, Head(holdings), account_id)],
                          Tail(holdings), account_id)
              IN  [db |-> r.db, cnt |-> r.cnt + 1]

\* the body of the loop with the stored transactions of the account replaced
\* by those of the record
ingest_account_replacing(d, account_data, t) ==
    LET d1 == [d EXCEPT !.orgs = @ \cup {account_data.org_id}]
        d2 == process_accounts(d1, account_data, t)
        d3 == process_account_balance(d2, account_data)
        r4 == process_transactions(
                  [d3 EXCEPT !.transactions = Drop(@, TxnsOf(d3, account_data.id))],
                  account_data.transactions, account_data.id)
        r5 == process_holdings(r4.db, account_data.holdings, account_data.id)
    IN  [db |-> r5.db, txn_count |-> r4.cnt, holding_count |-> r5.cnt]

\* the body of the account loop of process_sync_range for one account record
ingest_account(d, account_data, t) ==
    LET d1 == [d EXCEPT !.orgs = @ \cup {account_data.org_id}]
        d2 == process_accounts(d1, account_data, t)
        d3 == process_account_balance(d2, account_data)
        r4 == process_transactions(d3, account_data.transactions, account_data.id)
        r5 == process_holdings(r4.db, account_data.holdings, account_data.id)
    IN  [db |-> r5.db, txn_count |-> r4.cnt, holding_count |-> r5.cnt]

\* update_transaction(db, id, TransactionUpdate(amount, splits)): the new state,
\* or the old one when the transaction is unknown or the splits do not add up
\* (SplitMismatchError before the commit)
update_transaction(d, id, amount, splits_data) ==
    IF id \notin DOMAIN d.transactions THEN d
    ELSE LET old == d.transactions[id]
             amt == IF amount = NoCat THEN old.amount ELSE amount
             splits == IF splits_data = None THEN old.splits ELSE splits_data
         IN  IF splits_data # None /\ ~validate_splits(amt, splits)
             THEN d
             ELSE [d EXCEPT !.transactions[id].amount = amt,
                            !.transactions[id].splits = splits]

\* -------------------------------------------------------------- AccountMerger
ZeroStats ==
    [transactions_reassigned |-> 0, transactions_removed |-> 0,
     transactions_matched |-> 0, holdings_reassigned |-> 0,
     source_account_deleted |-> FALSE]

MergeIdle ==
    [pc |-> "idle", source |-> None, target |-> None, preserve |-> FALSE,
     todo |-> <<>>, target_txn_map |-> <<>>, stats |-> ZeroStats, cutoff |-> 0,
     before |-> EmptyDb]

NoRes == [op |-> "none", status |-> "none", info |-> <<>>]

\* cutoff_date = now - timedelta(days=simplefin_lookback_months * 30)
cutoff_date(t) == t - LookbackMonths * LookbackDays

\* target_txn_map: one target transaction per natural key; when several share a
\* key the one the query returns last wins, which the code does not determine
TargetKeys(d, t) == {NaturalKey(d.transactions[i]) : i \in TxnsOf(d, t)}

TargetMaps(d, t) ==
    {m \in [TargetKeys(d, t) -> TxnsOf(d, t)] :
        \A k \in TargetKeys(d, t) : NaturalKey(d.transactions[m[k]]) = k}

\* the iteration with an unmatched recent transaction moved to the target
merge_source_txn_moving(w, m, id) ==
    LET source_txn == w.transactions[id]
        key == NaturalKey(source_txn)
        has_target == key \in DOMAIN m.target_txn_map
        target_id == m.target_txn_map[key]
        copied ==
            IF has_target /\ m.preserve /\ target_id \in DOMAIN w.transactions
            THEN [w EXCEPT !.transactions[target_id].splits = source_txn.splits,
                           !.transactions[target_id].payee_id =
                               IF source_txn.payee_id # None
                               THEN source_txn.payee_id ELSE @]
            ELSE w
    IN  IF source_txn.posted >= m.cutoff
        THEN [w |-> IF has_target
                    THEN [copied EXCEPT !.transactions = Drop(@, {id})]
                    ELSE [w EXCEPT !.transactions[id].account_id = m.target],
              stats |-> [m.stats EXCEPT
                  !.transactions_matched =
                      IF has_target /\ m.preserve THEN @ + 1 ELSE @,
                  !.transactions_removed = @ + 1]]
        ELSE [w |-> [w EXCEPT !.transactions[id].account_id = m.target],
              stats |-> [m.stats EXCEPT !.transactions_reassigned = @ + 1]]

\* one iteration of "for source_txn in source_transactions"
merge_source_txn(w, m, id) ==
    LET source_txn == w.transactions[id]
        key == NaturalKey(source_txn)
        has_target == key \in DOMAIN m.target_txn_map
        target_id == m.target_txn_map[key]
        copied ==
            IF has_target /\ m.preserve /\ target_id \in DOMAIN w.transactions
            THEN [w EXCEPT !.transactions[target_id].splits = source_txn.splits,
                           !.transactions[target_id].payee_id =
                               IF source_txn.payee_id # None
                               THEN source_txn.payee_id ELSE @]
            ELSE w
    IN  IF source_txn.posted >= m.cutoff
        THEN [w |-> [copied EXCEPT !.transactions = Drop(@, {id})],
              stats |-> [m.stats EXCEPT
                  !.transactions_matched =
                      IF has_target /\ m.preserve THEN @ + 1 ELSE @,
                  !.transactions_removed = @ + 1]]
        ELSE [w |-> [w EXCEPT !.transactions[id].account_id = m.target],
              stats |-> [m.stats EXCEPT !.transactions_reassigned = @ + 1]]

\* ON DELETE CASCADE of accounts.id: the rows that still point at the account
delete_account_row(w, a) ==
    [w EXCEPT !.accounts = Drop(@, {a}),
              !.transactions = Drop(@, TxnsOf(w, a)),
              !.holdings = Drop(@, {h \in DOMAIN w.holdings : w.holdings[h] = a}),
              !.balances = Drop(@, {k \in DOMAIN w.balances : k[1] = a})]

\* the start of the merge without the comparison of the names
MergeBegin_unnamed(s, t, p) ==
    /\ mrg.pc = "idle" /\ job.pc = "idle"
    /\ IF s \notin DOMAIN db.accounts \/ t \notin DOMAIN db.accounts
       THEN /\ res' = [op |-> "merge", status |-> "not_found", info |-> ZeroStats]
            /\ UNCHANGED <<mrg, sess>>
       ELSE IF db.accounts[s].org_id # db.accounts[t].org_id
       THEN /\ res' = [op |-> "merge", status |-> "mismatch", info |-> ZeroStats]
            /\ UNCHANGED <<mrg, sess>>
       ELSE /\ \E order \in SetToSeqs(TxnsOf(db, s)), m \in TargetMaps(db, t) :
                   mrg' = [pc |-> "txns", source |-> s, target |-> t, preserve |-> p,
                           todo |-> order, target_txn_map |-> m,
                           stats |-> ZeroStats, cutoff |-> cutoff_date(now),
                           before |-> db]
            /\ sess' = db
            /\ res' = NoRes
    /\ UNCHANGED <<db, job, env, now, conc>>

\* merge_accounts, lines 389-422: the two lookups, the precondition checks,
\* the queries and the lookup table
MergeBegin(s, t, p) ==
    /\ mrg.pc = "idle" /\ job.pc = "idle"
    /\ IF s \notin DOMAIN db.accounts \/ t \notin DOMAIN db.accounts
       THEN /\ res' = [op |-> "merge", status |-> "not_found", info |-> ZeroStats]
            /\ UNCHANGED <<mrg, sess>>
       ELSE IF \/ db.accounts[s].org_id # db.accounts[t].org_id
               \/ db.accounts[s].name # db.accounts[t].name
       THEN /\ res' = [op |-> "merge", status |-> "mismatch", info |-> ZeroStats]
            /\ UNCHANGED <<mrg, sess>>
       ELSE /\ \E order \in SetToSeqs(TxnsOf(db, s)), m \in TargetMaps(db, t) :
                   mrg' = [pc |-> "txns", source |-> s, target |-> t, preserve |-> p,
                           todo |-> order, target_txn_map |-> m,
                           stats |-> ZeroStats, cutoff |-> cutoff_date(now),
                           before |-> db]
            /\ sess' = db
            /\ res' = NoRes
    /\ UNCHANGED <<db, job, env, now, conc>>

\* the loop step with a commit after each transaction
MergeTxn_committing ==
    /\ mrg.pc = "txns" /\ mrg.todo # <<>>
    /\ LET r == merge_source_txn(sess, mrg, Head(mrg.todo))
       IN  /\ sess' = r.w
           /\ db' = r.w
           /\ mrg' = [mrg EXCEPT !.todo = Tail(@), !.stats = r.stats]
    /\ UNCHANGED <<job, res, env, now, conc>>

\* lines 425-466
MergeTxn ==
    /\ mrg.pc = "txns" /\ mrg.todo # <<>>
    /\ LET r == merge_source_txn(sess, mrg, Head(mrg.todo))
       IN  /\ sess' = r.w
           /\ mrg' = [mrg EXCEPT !.todo = Tail(@), !.stats = r.stats]
    /\ UNCHANGED <<db, job, res, env, now, conc>>

\* lines 468-472
MergeHoldings ==
    /\ mrg.pc = "txns" /\ mrg.todo = <<>>
    /\ LET hs == {h \in DOMAIN sess.holdings : sess.holdings[h] = mrg.source}
       IN  /\ sess' = [sess EXCEPT !.holdings =
                          [h \in DOMAIN @ |-> IF h \in hs THEN mrg.target ELSE @[h]]]
           /\ mrg' = [mrg EXCEPT !.pc = "delete",
                                 !.stats.holdings_reassigned = Cardinality(hs)]
    /\ UNCHANGED <<db, job, res, env, now, conc>>

\* lines 474-476
MergeDeleteSource ==
    /\ mrg.pc = "delete"
    /\ sess' = delete_account_row(sess, mrg.source)
    /\ mrg' = [mrg EXCEPT !.pc = "commit", !.stats.source_account_deleted = TRUE]
    /\ UNCHANGED <<db, job, res, env, now, conc>>

\* line 478: db.commit()
MergeCommit ==
    /\ mrg.pc = "commit"
    /\ db' = sess
    /\ res' = [op |-> "merge", status |-> "ok", info |-> mrg.stats]
    /\ mrg' = MergeIdle
    /\ sess' = EmptyDb
    /\ UNCHANGED <<job, env, now, conc>>

\* an exception anywhere between the precondition checks and the commit: the
\* route turns it into an HTTP error and get_db closes the session, which
\* discards the uncommitted work
MergeFail ==
    /\ mrg.pc \in {"txns", "delete", "commit"}
    /\ res' = [op |-> "merge", status |-> "error", info |-> mrg.stats]
    /\ mrg' = MergeIdle
    /\ sess' = EmptyDb
    /\ UNCHANGED <<db, job, env, now, conc>>

\* ------------------------------------------------- payloads of the aggregator
\* the payee the provider prints for a description
ProviderPayee(description) == IF description = "x" THEN "Acme" ELSE None

PayloadTxns ==
    {[id |-> i, posted |-> p, amount |-> m, description |-> x,
      payee |-> ProviderPayee(x)] :
        i \in TxnIds, p \in PostedDays, m \in Amounts, x \in Descriptions}

\* the payloads of one account record: none or one transaction, or the same
\* content twice under two ids; the provider reports no transaction for A3
Payloads(a) ==
    IF a = "A3" THEN {<<>>}
    ELSE {<<>>} \cup {<<x>> : x \in PayloadTxns}
         \cup {<<x, [x EXCEPT !.id = "t2"]>> : x \in {y \in PayloadTxns : y.id = "t1"}}

\* how the provider may re-issue ids: not at all, or every id changed
Reissues == {[i \in TxnIds |-> i], [i \in TxnIds |-> IF i = "t1" THEN "t2" ELSE "t1"]}

\* the holdings the provider lists for an account
ProviderHoldings(a) == IF a = "A1" THEN <<"h1">> ELSE <<>>

\* one account record of a response: "id", "name", "org", "balance-date",
\* "transactions", "holdings"
AccountRecord(a, txns, t) ==
    [id |-> a, name |-> ProviderName(a), org_id |-> ProviderOrg(a),
     balance_date |-> t, transactions |-> txns, holdings |-> ProviderHoldings(a)]

\* the same transactions under the ids the provider re-issues
Reissue(txns, f) == [i \in 1..Len(txns) |-> [txns[i] EXCEPT !.id = f[@]]]

\* process_sync_range on a response with one account record (range of a manual
\* or initial sync: no onboarding)
ProcessSyncRange(a, txns) ==
    /\ mrg.pc = "idle" /\ job.pc = "idle"
    /\ LET r == ingest_account(db, AccountRecord(a, txns, now), now)
       IN  /\ db' = r.db
           /\ res' = [op |-> "sync_range", status |-> "ok",
                      info |-> [processed |-> r.txn_count]]
    /\ UNCHANGED <<sess, mrg, job, env, now, conc>>

\* the range is synced and then synced again, the provider answering the
\* second time with the same payload, each transaction under the id f gives
\* it (the same id, or a re-issued one)
Resync(a, txns, f) ==
    /\ mrg.pc = "idle" /\ job.pc = "idle"
    /\ LET r1 == ingest_account(db, AccountRecord(a, txns, now), now)
           r2 == ingest_account(r1.db, AccountRecord(a, Reissue(txns, f), now), now)
       IN  /\ db' = r2.db
           /\ res' = [op |-> "resync", status |-> "ok",
                      info |-> [once |-> r1.db.transactions,
                                first |-> r1.txn_count,
                                reissued |-> \E i \in 1..Len(txns) : f[txns[i].id] # txns[i].id]]
    /\ UNCHANGED <<sess, mrg, job, env, now, conc>>

\* the user re-categorises a transaction: PUT with splits only
UpdateTransaction(id, c) ==
    /\ mrg.pc = "idle" /\ job.pc = "idle"
    /\ id \in DOMAIN db.transactions
    /\ db' = update_transaction(
                 db, id, NoCat,
                 <<[category_id |-> c, amount |-> db.transactions[id].amount]>>)
    /\ res' = [op |-> "update_transaction", status |-> "ok",
               info |-> <<>>]
    /\ UNCHANGED <<sess, mrg, job, env, now, conc>>

\* ---------------------------------------------------------------- the routes
\* the split lists a request may carry for a transaction of amount 5: none,
\* one that falls short, two that add up
SplitLists ==
    {<<>>, <<[category_id |-> 1, amount |-> 3]>>,
     <<[category_id |-> 1, amount |-> 3], [category_id |-> 0, amount |-> 2]>>}

\* POST /transactions (or a caller passing a dict, which may name a payee):
\* create_transaction; SplitMismatchError becomes 422, an unknown account or
\* a used id fails the flush, and the closed session drops what was flushed
CreateTransaction(id, a, payee, splits) ==
    /\ mrg.pc = "idle" /\ job.pc = "idle"
    /\ LET data == [id |-> id, account_id |-> a, posted |-> RecentDay, amount |-> 5,
                    description |-> "y", payee |-> payee, splits |-> splits,
                    content_hash |-> <<>>]
           r == create_transaction(db, data, NoCat)
       IN  IF a \notin DOMAIN db.accounts \/ id \in DOMAIN db.transactions
           THEN /\ res' = [op |-> "create_transaction", status |-> "error", info |-> data]
                /\ UNCHANGED db
           ELSE /\ db' = r
                /\ res' = [op |-> "create_transaction",
                           status |-> IF r = db THEN "split_mismatch" ELSE "ok",
                           info |-> data]
    /\ UNCHANGED <<sess, mrg, job, env, now, conc>>

\* PUT /transactions/{id} with amount and/or splits; amount NoCat and splits
\* None stand for a field the body leaves unset
UpdateTransactionBody(id, amount, splits_data) ==
    /\ mrg.pc = "idle" /\ job.pc = "idle"
    /\ db' = update_transaction(db, id, amount, splits_data)
    /\ res' = [op |-> "update_transaction",
               status |-> IF id \notin DOMAIN db.transactions THEN "not_found"
                          ELSE IF db' = db /\ splits_data # None
                                  /\ splits_data # db.transactions[id].splits
                               THEN "split_mismatch" ELSE "ok",
               info |-> <<>>]
    /\ UNCHANGED <<sess, mrg, job, env, now, conc>>

\* the keyword lists that have a word in the lower-cased name
KeywordsIn(name) ==
    CASE name = "Checking" -> {"bank"}
      [] name = "Visa" -> {"credit"}
      [] name = "Fidelity Checking" -> {"investment", "bank"}
      [] name = "Roth Card" -> {"investment", "credit"}
      [] name = "Visa Savings" -> {"credit", "bank"}
      [] OTHER -> {}

\* the members of the enum AccountType
AccountTypes == {"bank", "credit_card", "investment", "loan"}

\* what classify_accounts infers for an untyped account: its keyword lists are
\* tried in the order credit_card, bank_account, investment, then the signs of
\* the transactions; with neither it reads account.type, which Account lacks
inferred_type(d, a) ==
    LET kw == KeywordsIn(d.accounts[a].name)
        negative == {i \in TxnsOf(d, a) : d.transactions[i].amount <= 0}
    IN  IF "credit" \in kw THEN "credit_card"
        ELSE IF "bank" \in kw THEN "bank_account"
        ELSE IF "investment" \in kw THEN "investment"
        ELSE IF TxnsOf(d, a) = {} THEN "AttributeError"
        ELSE IF 2 * Cardinality(negative) > Cardinality(TxnsOf(d, a))
             THEN "credit_card" ELSE "bank_account"

\* classify_accounts that does not skip the accounts with a type
classify_accounts_overwriting(d) ==
    IF \E a \in DOMAIN d.accounts : inferred_type(d, a) \notin AccountTypes
    THEN d
    ELSE [d EXCEPT !.accounts =
            [a \in DOMAIN @ |-> [@[a] EXCEPT !.account_type = inferred_type(d, a)]]]

\* classify_accounts(db): the accounts without a type get the inferred one;
\* AccountType("bank_account") and account.type raise, and then nothing is
\* committed
classify_accounts(d) ==
    LET untyped == {a \in DOMAIN d.accounts : d.accounts[a].account_type = None}
    IN  IF \E a \in untyped : inferred_type(d, a) \notin AccountTypes
        THEN d
        ELSE [d EXCEPT !.accounts =
                [a \in DOMAIN @ |->
                    IF a \in untyped
                    THEN [@[a] EXCEPT !.account_type = inferred_type(d, a)]
                    ELSE @[a]]]

ClassifyAccounts ==
    /\ mrg.pc = "idle" /\ job.pc = "idle"
    /\ db' = classify_accounts(db)
    /\ res' = [op |-> "classify_accounts",
               status |-> IF db' = db THEN "unchanged" ELSE "ok", info |-> <<>>]
    /\ UNCHANGED <<sess, mrg, job, env, now, conc>>

\* PUT /accounts/{id} with account_type: update_account, and for a type that
\* becomes loan _recategorize_payees_for_loan_account over the uncategorised
\* payees of the account's transactions
UpdateAccount(id, account_type) ==
    /\ mrg.pc = "idle" /\ job.pc = "idle"
    /\ id \in DOMAIN db.accounts
    /\ LET d1 == [db EXCEPT !.accounts[id].account_type = account_type]
           suggested(p) ==
               {suggest_category_for_loan_transaction(
                    d1, d1.transactions[i].description, str_of(account_type)) :
                  i \in {j \in TxnsOf(d1, id) : d1.transactions[j].payee_id = p}}
                 \ {NoCat, 0}
       IN  db' = IF account_type \in {"loan", "mortgage"}
                    /\ db.accounts[id].account_type # account_type
                 THEN [d1 EXCEPT !.payees =
                         [p \in DOMAIN @ |->
                             IF @[p] = 0 /\ suggested(p) # {}
                             THEN CHOOSE c \in suggested(p) : TRUE ELSE @[p]]]
                 ELSE d1
    /\ res' = [op |-> "update_account", status |-> "ok",
               info |-> [id |-> id, account_type |-> account_type]]
    /\ UNCHANGED <<sess, mrg, job, env, now, conc>>

\* ------------------------------------------------------------- the aggregator
\* datetime.replace(day=1): the first day of the month a day lies in
MonthStart(d) == d - (d % MonthLen)

\* accounts the user may have linked at the aggregator, in the order of a response
SyncAccounts == <<"A1", "A2">>

\* the rows the aggregator may hold
LedgerIds == <<"r1", "r2", "r3", "r4", "r5", "r6">>

LedgerRow(i) ==
    CASE i = "r1" -> [account |-> "A1", posted |-> Now0 - 1, description |-> "x"]
      [] i = "r2" -> [account |-> "A1", posted |-> MonthStart(Now0) - 20, description |-> "x"]
      [] i = "r3" -> [account |-> "A1", posted |-> MonthStart(Now0) + 5, description |-> "y"]
      [] i = "r4" -> [account |-> "A1", posted |-> MonthStart(Now0) - 80, description |-> "x"]
      [] i = "r5" -> [account |-> "A2", posted |-> Now0 - 1, description |-> "x"]
      [] i = "r6" -> [account |-> "A2", posted |-> MonthStart(Now0) - 20, description |-> "y"]

Ledgers ==
    {{}, {"r3"}, {"r2", "r4"}, {"r1", "r5"}, {"r2", "r6"}}

\* the error lists a response may carry
ErrorLists == {<<>>, <<"e">>}

\* GET {endpoint}?start-date=..&end-date=..: every linked account, each with
\* its transactions posted in [start, end)
RECURSIVE RowsOf(_, _, _, _)
RowsOf(ids, a, start, end) ==
    IF ids = <<>> THEN <<>>
    ELSE LET i == Head(ids)
             row == LedgerRow(i)
             rest == RowsOf(Tail(ids), a, start, end)
         IN  IF /\ i \in env.ledger /\ row.account = a
                /\ start <= row.posted /\ row.posted < end
             THEN <<[id |-> i, posted |-> row.posted, amount |-> 5,
                     description |-> row.description,
                     payee |-> ProviderPayee(row.description)]>> \o rest
             ELSE rest

RECURSIVE RecordsOf(_, _, _, _)
RecordsOf(accounts, start, end, t) ==
    IF accounts = <<>> THEN <<>>
    ELSE LET rest == RecordsOf(Tail(accounts), start, end, t)
         IN  IF Head(accounts) \in env.accounts
             THEN <<AccountRecord(Head(accounts),
                                  RowsOf(LedgerIds, Head(accounts), start, end), t)>>
                  \o rest
             ELSE rest

RemoteResponse(start, end, t) == RecordsOf(SyncAccounts, start, end, t)

\* the n-th remote call or write of a range fails when fuel = n; 0: none fails
Spend(fuel) == IF fuel = 0 THEN 0 ELSE fuel - 1

\* ------------------------------------------------------- duplicate detection
\* the accounts of find_duplicate_accounts' groups.  Candidates share org_id
\* and name; the older of two (created_at, then id) must have transactions, and
\* the share of its sampled transactions whose (posted, amount, description)
\* the newer one holds must reach min_match_ratio
IdRank(a) == CHOOSE k \in 1..3 : <<"A1", "A2", "A3">>[k] = a

\* order_by(created_at.asc().nulls_last(), id); NoDay is a null created_at
Older(d, a, b) ==
    \/ /\ d.accounts[a].created_at # NoDay
       /\ \/ d.accounts[b].created_at = NoDay
          \/ d.accounts[a].created_at < d.accounts[b].created_at
    \/ d.accounts[a].created_at = d.accounts[b].created_at /\ IdRank(a) < IdRank(b)

\* the transaction_sample_size most recent transactions of an account
Sample(d, a) ==
    IF Cardinality(TxnsOf(d, a)) <= SampleSize THEN TxnsOf(d, a)
    ELSE CHOOSE S \in SUBSET TxnsOf(d, a) :
             /\ Cardinality(S) = SampleSize
             /\ \A i \in S, j \in TxnsOf(d, a) \ S :
                    d.transactions[i].posted >= d.transactions[j].posted

\* the test with "match_ratio > min_match_ratio"
PairMatches_above(d, older, newer) ==
    LET older_transactions == Sample(d, older)
        newer_keys == {NaturalKey(d.transactions[i]) : i \in TxnsOf(d, newer)}
        matches == Cardinality({i \in older_transactions :
                                   NaturalKey(d.transactions[i]) \in newer_keys})
    IN  /\ older_transactions # {}
        /\ matches * RatioDen > RatioNum * Cardinality(older_transactions)

PairMatches(d, older, newer) ==
    LET older_transactions == Sample(d, older)
        newer_keys == {NaturalKey(d.transactions[i]) : i \in TxnsOf(d, newer)}
        matches == Cardinality({i \in older_transactions :
                                   NaturalKey(d.transactions[i]) \in newer_keys})
    IN  /\ older_transactions # {}
        /\ matches * RatioDen >= RatioNum * Cardinality(older_transactions)

find_duplicate_accounts(d) ==
    {a \in DOMAIN d.accounts :
        \E b \in DOMAIN d.accounts \ {a} :
            /\ d.accounts[a].org_id = d.accounts[b].org_id
            /\ d.accounts[a].name = d.accounts[b].name
            /\ IF Older(d, a, b) THEN PairMatches(d, a, b) ELSE PairMatches(d, b, a)}

\* ------------------------------------------------------------- SyncOrchestrator
ZeroSyncStats == [accounts |-> <<>>, total_transactions |-> 0, total_holdings |-> 0]

\* the job of the scheduler: where it stands, its SyncRun, the arguments of
\* run() and the locals of process_initial_sync; calls lists the
\* process_sync_range calls that returned, saw_errors tells whether one of
\* their responses carried errors, log lists the jobs that ended
JobIdle ==
    [pc |-> "idle", run |-> 0, from_date |-> NoDay, mode |-> "none",
     end |-> 0, empty_months |-> 0, months_synced |-> 0, stats |-> ZeroSyncStats,
     calls |-> <<>>, saw_errors |-> FALSE, last_sync0 |-> NoDay, log |-> <<>>]

\* handle_new_account, lines 312-365: the walk-back of one new account
RECURSIVE walk_back(_, _, _, _, _, _, _)
walk_back(d, account_id, end, empty_months, months_synced, fuel, walks) ==
    IF \/ empty_months >= 2
       \/ env.max_months # 0 /\ months_synced >= env.max_months
    THEN [db |-> d, raised |-> FALSE, fuel |-> fuel, walks |-> walks]
    ELSE IF fuel = 1
    THEN [db |-> d, raised |-> TRUE, fuel |-> 0, walks |-> walks]
    ELSE
      LET start == MonthStart(end - 1)
          accounts == RemoteResponse(start, end, now)
          found == {k \in 1..Len(accounts) : accounts[k].id = account_id}
          r == IF found # {}
               THEN process_transactions(
                        d, accounts[CHOOSE k \in found : TRUE].transactions, account_id)
               ELSE [db |-> d, cnt |-> 0]
      IN  walk_back(r.db, account_id, start,
                    IF r.cnt = 0 THEN empty_months + 1 ELSE 0,
                    months_synced + 1, Spend(fuel), walks + 1)

\* handle_new_account that walks back whatever find_duplicate_accounts says
handle_new_account_walking(d, account_id, already_synced_from, fuel) ==
    walk_back(d, account_id, already_synced_from, 0, 0, fuel, 0)

\* handle_new_account(cfg, db, account_id, already_synced_from)
handle_new_account(d, account_id, already_synced_from, fuel) ==
    IF account_id \in find_duplicate_accounts(d)
    THEN [db |-> d, raised |-> FALSE, fuel |-> fuel, walks |-> 0]
    ELSE walk_back(d, account_id, already_synced_from, 0, 0, fuel, 0)

\* stats["accounts"][account_id] and the totals, lines 494-505
add_stats(stats, account_id, txn_count, holding_count) ==
    LET old == IF account_id \in DOMAIN stats.accounts THEN stats.accounts[account_id]
               ELSE [transactions |-> 0, holdings |-> 0]
    IN  [accounts |-> Put(stats.accounts, account_id,
                          [transactions |-> old.transactions + txn_count,
                           holdings |-> old.holdings + holding_count]),
         total_transactions |-> stats.total_transactions + txn_count,
         total_holdings |-> stats.total_holdings + holding_count]

\* "for account_data in accounts", lines 467-505
RECURSIVE account_loop(_, _, _, _, _, _, _, _)
account_loop(d, accounts, new_account_ids, start, stats, total_txns, fuel, walks) ==
    IF accounts = <<>>
    THEN [db |-> d, total |-> total_txns, stats |-> stats, raised |-> FALSE,
          error |-> None, walks |-> walks, new |-> new_account_ids]
    ELSE IF fuel = 1
    THEN [db |-> d, total |-> total_txns, stats |-> stats, raised |-> TRUE,
          error |-> "persist failed", walks |-> walks, new |-> new_account_ids]
    ELSE
      LET account_data == Head(accounts)
          r == ingest_account(d, account_data, now)
          h == IF account_data.id \in new_account_ids
               THEN handle_new_account(r.db, account_data.id, start, Spend(fuel))
               ELSE [db |-> r.db, raised |-> FALSE, fuel |-> Spend(fuel), walks |-> 0]
      IN  IF h.raised
          THEN [db |-> h.db, total |-> total_txns + r.txn_count, stats |-> stats,
                raised |-> TRUE, error |-> "fetch failed", walks |-> walks + h.walks,
                new |-> new_account_ids]
          ELSE account_loop(h.db, Tail(accounts), new_account_ids, start,
                            add_stats(stats, account_data.id, r.txn_count,
                                      r.holding_count),
                            total_txns + r.txn_count, h.fuel, walks + h.walks)

\* process_sync_range(cfg, db, config, start, end, stats, is_incremental): the
\* response carries the list errors; [db, total, stats, raised, error], the
\* number walks of walk-back fetches and the set new of new_account_ids
process_sync_range(d, start, end, stats, is_incremental, errors, fuel) ==
    IF fuel = 1
    THEN [db |-> d, total |-> 0, stats |-> stats, raised |-> TRUE,
          error |-> "fetch failed", walks |-> 0, new |-> {}]
    ELSE
      LET accounts == RemoteResponse(start, end, now)
          d1 == IF errors # <<>> THEN [d EXCEPT !.config.errors = errors] ELSE d
          new_account_ids ==
              IF is_incremental
              THEN {accounts[k].id : k \in 1..Len(accounts)} \ DOMAIN d1.accounts
              ELSE {}
      IN  IF accounts = <<>>
          THEN [db |-> d1, total |-> 0, stats |-> stats, raised |-> FALSE,
                error |-> None, walks |-> 0, new |-> {}]
          ELSE account_loop(d1, accounts, new_account_ids, start, stats, 0,
                            Spend(fuel), 0)

\* a new SyncRun row, manager.py lines 82-87
NewSyncRun(t) ==
    [status |-> "running", started_at |-> t, completed_at |-> NoDay,
     error_message |-> None, accounts_processed |-> 0, transactions_found |-> 0,
     holdings_found |-> 0, details |-> <<>>]

\* the job is over (finally: db.close()); its outcome is entered in the log
EndJob(outcome) ==
    [JobIdle EXCEPT !.log = Append(job.log,
        [run |-> job.run, outcome |-> outcome, mode |-> job.mode,
         accounts |-> env.accounts,
         calls |-> Len(job.calls),
         errors |-> job.saw_errors])]

\* the handler without its completed_at
run_failed_unfinished(d, run, e, t) ==
    [d EXCEPT !.runs[run].status = "failed",
              !.runs[run].error_message = e]

\* "except Exception as e" of run(), lines 276-283
run_failed(d, run, e, t) ==
    [d EXCEPT !.runs[run].status = "failed",
              !.runs[run].error_message = e,
              !.runs[run].completed_at = t]

\* lines 261-274 of run()
run_completed(d, run, stats, t) ==
    [d EXCEPT !.config.last_sync = t,
              !.runs[run].status = "completed",
              !.runs[run].completed_at = t,
              !.runs[run].accounts_processed = Cardinality(DOMAIN stats.accounts),
              !.runs[run].transactions_found = stats.total_transactions,
              !.runs[run].holdings_found = stats.total_holdings,
              !.runs[run].details = stats.accounts]

\* job() of _build_job up to the creation of the SyncRun, manager.py 70-87
JobStart(from_date) ==
    /\ mrg.pc = "idle" /\ job.pc = "idle"
    /\ IF ~db.config.active
       THEN /\ res' = [op |-> "job", status |-> "inactive", info |-> <<>>]
            /\ UNCHANGED <<db, job>>
       ELSE /\ db' = [db EXCEPT !.runs = Append(@, NewSyncRun(now))]
            /\ job' = [JobIdle EXCEPT !.pc = "created", !.run = Len(db.runs) + 1,
                                      !.from_date = from_date,
                                      !.last_sync0 = db.config.last_sync,
                                      !.log = job.log]
            /\ res' = [op |-> "job", status |-> "started", info |-> <<>>]
    /\ UNCHANGED <<sess, mrg, env, now, conc>>

\* the dispatch on provider_name (manager.py 89-103) and run() up to the mode
\* selection (simplefin.py 188-217, get_credentials 121-169); claimed tells
\* whether the exchange of the setup token succeeds
JobDispatch(claimed) ==
    /\ job.pc = "created"
    /\ IF db.config.provider_name # "simplefin"
       THEN /\ job' = EndJob("unsupported")
            /\ res' = [op |-> "job", status |-> "unsupported", info |-> <<>>]
            /\ UNCHANGED db
       ELSE LET d1 == [db EXCEPT !.config.errors = <<>>]
                has == d1.config.credentials
                got == has \/ (d1.config.setup_token /\ claimed)
                d2 == IF has THEN d1
                      ELSE IF ~d1.config.setup_token THEN d1
                      ELSE IF claimed THEN [d1 EXCEPT !.config.credentials = TRUE]
                      ELSE [d1 EXCEPT !.config.errors =
                              <<"Failed to retrieve credentials via setup token">>]
            IN  IF ~got
                THEN /\ db' = run_failed(d2, job.run, "Could not fetch credentials", now)
                     /\ job' = EndJob("no_credentials")
                     /\ res' = [op |-> "run", status |-> "returned", info |-> <<>>]
                ELSE /\ db' = d2
                     /\ job' = IF job.from_date # NoDay
                               THEN [job EXCEPT !.pc = "range", !.mode = "manual"]
                               ELSE IF d2.config.last_sync # NoDay
                               THEN [job EXCEPT !.pc = "range", !.mode = "incremental"]
                               ELSE [job EXCEPT !.pc = "initial", !.mode = "initial",
                                                !.end = MonthStart(now)]
                     /\ res' = [op |-> "run", status |-> "running", info |-> <<>>]
    /\ UNCHANGED <<sess, mrg, env, now, conc>>

\* what one process_sync_range call of run() leaves behind: r is its result, c
\* the record of the call
AfterRange(r, c, next) ==
    IF r.raised
    THEN /\ db' = run_failed(r.db, job.run, r.error, now)
         /\ job' = EndJob("raised")
         /\ res' = [op |-> "process_sync_range", status |-> "raised",
                    info |-> [call |-> c, error |-> r.error]]
    ELSE /\ db' = r.db
         /\ job' = [next EXCEPT
                       !.stats = r.stats,
                       !.calls = Append(@, [start |-> c.start, end |-> c.end,
                                            total |-> c.total]),
                       !.saw_errors = @ \/ c.errors # <<>>]
         /\ res' = [op |-> "process_sync_range", status |-> "returned",
                    info |-> [call |-> c, error |-> None]]

\* the range of run() with last_sync tested before from_date
RunRange_from_last_sync(errors, walk_errors, fuel) ==
    /\ job.pc = "range"
    /\ \E start \in {IF db.config.last_sync # NoDay THEN db.config.last_sync - 1
                       ELSE job.from_date} :
       \E r \in {process_sync_range(db, start, now, job.stats,
                                    job.mode = "incremental", errors, fuel)} :
       \E c \in {[start |-> start, end |-> now, errors |-> errors,
                  walk_errors |-> IF r.walks > 0 THEN walk_errors ELSE <<>>,
                  accounts |-> env.accounts, total |-> r.total,
                  walks |-> r.walks, new |-> r.new]} :
           AfterRange(r, c, [job EXCEPT !.pc = "finish"])
    /\ UNCHANGED <<sess, mrg, env, now, conc>>

\* the manual or incremental range of run(), lines 220-254
RunRange(errors, walk_errors, fuel) ==
    /\ job.pc = "range"
    /\ \E start \in {IF job.from_date # NoDay THEN job.from_date
                       ELSE db.config.last_sync - 1} :
       \E r \in {process_sync_range(db, start, now, job.stats,
                                    job.mode = "incremental", errors, fuel)} :
       \E c \in {[start |-> start, end |-> now, errors |-> errors,
                  walk_errors |-> IF r.walks > 0 THEN walk_errors ELSE <<>>,
                  accounts |-> env.accounts, total |-> r.total,
                  walks |-> r.walks, new |-> r.new]} :
           AfterRange(r, c, [job EXCEPT !.pc = "finish"])
    /\ UNCHANGED <<sess, mrg, env, now, conc>>

\* the loop condition with a third empty month allowed
initial_continue_three(j) ==
    /\ j.empty_months < 3
    /\ ~(env.max_months # 0 /\ j.months_synced >= env.max_months)

\* the loop condition of process_initial_sync, lines 381-384
initial_continue(j) ==
    /\ j.empty_months < 2
    /\ ~(env.max_months # 0 /\ j.months_synced >= env.max_months)

\* the locals of process_initial_sync after one iteration, lines 388-393
initial_step(j, processed, start) ==
    [j EXCEPT !.empty_months = IF processed = 0 THEN @ + 1 ELSE 0,
              !.end = start,
              !.months_synced = @ + 1]

\* process_initial_sync(cfg, db, config, stats) when no call fails and no
\* response carries errors: the database it leaves
RECURSIVE process_initial_sync(_, _)
process_initial_sync(d, j) ==
    IF ~initial_continue(j) THEN d
    ELSE LET start == MonthStart(j.end - 1)
             r == process_sync_range(d, start, j.end, j.stats, FALSE, <<>>, 0)
         IN  process_initial_sync(
                 r.db, [initial_step(j, r.total, start) EXCEPT !.stats = r.stats])

\* one iteration of the loop of process_initial_sync, lines 386-393
RunMonth(errors, fuel) ==
    /\ job.pc = "initial"
    /\ initial_continue(job)
    /\ \E start \in {MonthStart(job.end - 1)} :
       \E r \in {process_sync_range(db, start, job.end, job.stats, FALSE, errors, fuel)} :
       \E c \in {[start |-> start, end |-> job.end, errors |-> errors,
                  walk_errors |-> <<>>, accounts |-> env.accounts, total |-> r.total,
                  walks |-> r.walks, new |-> r.new]} :
           AfterRange(r, c, initial_step(job, r.total, start))
    /\ UNCHANGED <<sess, mrg, env, now, conc>>

\* the loop of process_initial_sync ends, lines 395-400
RunInitialDone ==
    /\ job.pc = "initial"
    /\ ~initial_continue(job)
    /\ job' = [job EXCEPT !.pc = "finish"]
    /\ res' = [op |-> "process_initial_sync", status |-> "returned", info |-> <<>>]
    /\ UNCHANGED <<db, sess, mrg, env, now, conc>>

\* lines 261-274 of run(), then the end of the job
RunFinish ==
    /\ job.pc = "finish"
    /\ db' = run_completed(db, job.run, job.stats, now)
    /\ job' = EndJob("completed")
    /\ res' = [op |-> "run", status |-> "completed", info |-> <<>>]
    /\ UNCHANGED <<sess, mrg, env, now, conc>>

\* the user links one more account at the aggregator
LinkAccount(a) ==
    /\ mrg.pc = "idle" /\ job.pc = "idle"
    /\ a \notin env.accounts
    /\ env' = [env EXCEPT !.accounts = @ \cup {a}]
    /\ UNCHANGED <<db, sess, mrg, job, res, now, conc>>

\* a day passes between two jobs (the days before the first job and after the
\* last one change nothing)
Tick ==
    /\ mrg.pc = "idle" /\ job.pc = "idle"
    /\ now < Now0 + MaxTicks
    /\ job.log # <<>> /\ Len(db.runs) < MaxRuns
    /\ now' = now + 1
    /\ UNCHANGED <<db, sess, mrg, job, res, env, conc>>

\* the sync configurations a user may have stored
Configs ==
    {DefaultConfig,
     [DefaultConfig EXCEPT !.credentials = FALSE],
     [DefaultConfig EXCEPT !.credentials = FALSE, !.setup_token = FALSE],
     [DefaultConfig EXCEPT !.provider_name = "plaid"],
     [DefaultConfig EXCEPT !.active = FALSE]}

Envs ==
    {[accounts |-> linked, ledger |-> l, max_months |-> m] :
        linked \in {{}, {"A1"}}, l \in Ledgers, m \in {0, CapMonths}}

SyncInit ==
    /\ \E c \in Configs : db = [EmptyDb EXCEPT !.config = c]
    /\ sess = EmptyDb
    /\ mrg = MergeIdle
    /\ job = JobIdle
    /\ res = NoRes
    /\ env \in Envs
    /\ now = Now0
    /\ raw_response_cache = <<>> /\ cache_lock = None /\ thr = <<>>

SyncNext ==
    \/ Len(db.runs) < MaxRuns /\ \E from_date \in {NoDay, Now0 - 2} : JobStart(from_date)
    \/ \E claimed \in BOOLEAN : JobDispatch(claimed)
    \/ \E errors \in ErrorLists, walk_errors \in ErrorLists, fuel \in 0..MaxFail :
           RunRange(errors, walk_errors, fuel)
    \/ \E errors \in ErrorLists, fuel \in 0..MaxFail : RunMonth(errors, fuel)
    \/ RunInitialDone
    \/ RunFinish
    \/ \E a \in Range(SyncAccounts) : LinkAccount(a)
    \/ Tick

SyncSpec == SyncInit /\ [][SyncNext]_vars

\* ------------------------------------------------ the scheduler, run after run
\* a user without linked accounts whose accounts have a history of months
\* before the current one; the scheduler fires the job again and again
BackfillInit ==
    /\ db = EmptyDb /\ sess = EmptyDb /\ mrg = MergeIdle /\ job = JobIdle
    /\ res = NoRes /\ now = Now0
    /\ \E l \in {{"r2"}, {"r2", "r4"}, {"r2", "r6"}} :
           env = [accounts |-> {}, ledger |-> l, max_months |-> 0]
    /\ raw_response_cache = <<>> /\ cache_lock = None /\ thr = <<>>

BackfillNext ==
    \/ Len(db.runs) < BackfillRuns /\ JobStart(NoDay)
    \/ JobDispatch(TRUE)
    \/ \E fuel \in 0..MaxFail : RunRange(<<>>, <<>>, fuel)
    \/ RunMonth(<<>>, 0)
    \/ RunInitialDone
    \/ RunFinish
    \/ \E a \in Range(SyncAccounts) : LinkAccount(a)

\* the scheduler keeps firing the job, and a job that has started ends (every
\* loop of run() is bounded and the fetch returns or raises)
BackfillSpec ==
    /\ BackfillInit /\ [][BackfillNext]_vars
    /\ WF_vars(Len(db.runs) < BackfillRuns /\ JobStart(NoDay))
    /\ []<>(job.pc = "idle")

\* ------------------------------------------------ two accounts of one name
\* the transactions an account may hold: none, five posted on consecutive
\* days (three such runs, each a day older than the one before) or seven
TxnDays(o) ==
    CASE o = "none" -> {}
      [] o = "w0" -> 1..5
      [] o = "w1" -> 2..6
      [] o = "w2" -> 3..7
      [] OTHER -> 1..7

\* A1 and A2, created at c (NoDay: a row from before created_at was stored),
\* each holding the transactions o gives it, posted Now0 - k for k in TxnDays
DupDb(c, o) ==
    [EmptyDb EXCEPT
       !.orgs = {"O1"},
       !.accounts = [a \in {"A1", "A2"} |->
                        [name |-> ProviderName(a), org_id |-> ProviderOrg(a),
                         account_type |-> None, created_at |-> c[a]]],
       !.transactions =
           [i \in {x \in {"A1", "A2"} \X (1..7) : x[2] \in TxnDays(o[x[1]])} |->
               [account_id |-> i[1], posted |-> Now0 - i[2], amount |-> 5,
                description |-> "x", payee_id |-> None,
                content_hash |-> compute_transaction_hash(i[1], Now0 - i[2], 5, "x"),
                splits |-> <<[category_id |-> 0, amount |-> 5]>>]]]

\* GET /accounts/duplicates
FindDuplicates ==
    /\ res.op = "none"
    /\ res' = [op |-> "find_duplicate_accounts", status |-> "ok",
               info |-> [accounts |-> find_duplicate_accounts(db)]]
    /\ UNCHANGED <<db, sess, mrg, job, env, now, conc>>

DupInit ==
    /\ \E c \in [{"A1", "A2"} -> {NoDay, Now0 - 2, Now0 - 1}],
          o \in [{"A1", "A2"} -> {"none", "w0", "w1", "w2", "long"}] : db = DupDb(c, o)
    /\ sess = EmptyDb /\ mrg = MergeIdle /\ job = JobIdle
    /\ res = NoRes /\ env = NoEnv /\ now = Now0
    /\ raw_response_cache = <<>> /\ cache_lock = None /\ thr = <<>>

DupSpec == DupInit /\ [][FindDuplicates]_vars

\* ------------------------------------------- grouping of the duplicate pairs
\* find_duplicate_accounts, lines 267-303: the loops over i < j append the pairs
\* that pass the test; accounts are numbered as the query orders them
RECURSIVE pair_loop(_, _, _, _)
pair_loop(n, i, j, passing) ==
    IF i > n THEN <<>>
    ELSE IF j > n THEN pair_loop(n, i + 1, i + 2, passing)
    ELSE (IF <<i, j>> \in passing THEN <<{i, j}>> ELSE <<>>)
         \o pair_loop(n, i, j + 1, passing)

\* lines 309-321: a pair joins the first set that holds one of its accounts,
\* or starts a new set
RECURSIVE first_pass(_, _)
first_pass(duplicate_pairs, account_sets) ==
    IF duplicate_pairs = <<>> THEN account_sets
    ELSE LET pair == Head(duplicate_pairs)
             hits == {k \in 1..Len(account_sets) : account_sets[k] \cap pair # {}}
             first == CHOOSE k \in hits : \A m \in hits : k <= m
         IN  first_pass(Tail(duplicate_pairs),
                        IF hits = {} THEN Append(account_sets, pair)
                        ELSE [account_sets EXCEPT ![first] = @ \cup pair])

\* lines 324-333: "while i < len(account_sets)" and "while j < len(account_sets)"
\* (i and j count from 1 here)
RECURSIVE merge_overlapping(_, _, _)
merge_overlapping(account_sets, i, j) ==
    IF i > Len(account_sets) THEN account_sets
    ELSE IF j > Len(account_sets) THEN merge_overlapping(account_sets, i + 1, i + 2)
    ELSE IF account_sets[i] \cap account_sets[j] # {}
         THEN merge_overlapping(
                  SubSeq([account_sets EXCEPT ![i] = @ \cup account_sets[j]], 1, j - 1)
                    \o SubSeq(account_sets, j + 1, Len(account_sets)),
                  i, j)
         ELSE merge_overlapping(account_sets, i, j + 1)

\* the groups of a set of three or more accounts, lines 262-354
GroupAccounts ==
    /\ res.op = "none"
    /\ res' = [op |-> "group", status |-> "ok",
               info |-> [groups |-> merge_overlapping(
                            first_pass(pair_loop(MaxGroup, 1, 2, env), <<>>), 1, 2)]]
    /\ UNCHANGED <<db, sess, mrg, job, env, now, conc>>

\* env: the pairs (older, newer) whose transactions overlap enough
GroupInit ==
    /\ db = EmptyDb /\ sess = EmptyDb /\ mrg = MergeIdle /\ job = JobIdle
    /\ res = NoRes /\ now = Now0
    /\ env \in SUBSET {x \in (1..MaxGroup) \X (1..MaxGroup) : x[1] < x[2]}
    /\ raw_response_cache = <<>> /\ cache_lock = None /\ thr = <<>>

GroupSpec == GroupInit /\ [][GroupAccounts]_vars

\* ------------------------------------------------------------ classify_account
\* account records as the aggregator delivers them: "name" and "holdings", and
\* "balance" and "available-balance" when the institution reports them (decimal
\* strings, or text that is no number)
RemoteRecords ==
    {[k \in {"name", "holdings"}
            \cup (IF b = "absent" THEN {} ELSE {"balance"})
            \cup (IF v = "absent" THEN {} ELSE {"available-balance"}) |->
         CASE k = "name" -> n
           [] k = "holdings" -> h
           [] k = "balance" -> b
           [] OTHER -> v] :
       n \in {"Checking", "Visa", "Fidelity Checking", "Roth Card", "Visa Savings", "Loan"},
       h \in {<<>>, <<"h1">>},
       b \in {"absent", "-1.00", "0.00", "1.00", "n/a"},
       v \in {"absent", "-1.00", "0.00", "1.00"}}

\* float(s) inside try/except: whether s is a number, and its value
parse_float(s) ==
    CASE s = "-1.00" -> [ok |-> TRUE, value |-> 0 - 1]
      [] s = "0.00" -> [ok |-> TRUE, value |-> 0]
      [] s = "1.00" -> [ok |-> TRUE, value |-> 1]
      [] OTHER -> [ok |-> FALSE, value |-> 0]

\* classify_account(acct); the balances are read with acct.get("balance") and
\* acct.get("available_balance")
classify_account(acct) ==
    LET kw == IF "name" \in DOMAIN acct THEN KeywordsIn(acct["name"]) ELSE {}
        balance == IF "balance" \in DOMAIN acct
                   THEN parse_float(acct["balance"]) ELSE [ok |-> FALSE, value |-> 0]
        avail == IF "available_balance" \in DOMAIN acct
                 THEN parse_float(acct["available_balance"])
                 ELSE [ok |-> FALSE, value |-> 0]
    IN  IF "holdings" \in DOMAIN acct /\ Len(acct["holdings"]) > 0 THEN "investment"
        ELSE IF "investment" \in kw THEN "investment"
        ELSE IF "credit" \in kw THEN "credit_card"
        ELSE IF "bank" \in kw THEN "bank"
        ELSE IF balance.ok /\ ~avail.ok /\ balance.value <= 0 THEN "credit_card"
        ELSE IF balance.ok /\ balance.value >= 0 /\ (~avail.ok \/ avail.value >= 0)
             THEN "bank"
        ELSE None

\* process_accounts classifies the record of the response
Classify ==
    /\ res.op = "none"
    /\ res' = [op |-> "classify_account", status |-> "ok",
               info |-> [type |-> classify_account(env)]]
    /\ UNCHANGED <<db, sess, mrg, job, env, now, conc>>

ClassifyInit ==
    /\ db = EmptyDb /\ sess = EmptyDb /\ mrg = MergeIdle /\ job = JobIdle
    /\ res = NoRes /\ env \in RemoteRecords /\ now = Now0
    /\ raw_response_cache = <<>> /\ cache_lock = None /\ thr = <<>>

ClassifySpec == ClassifyInit /\ [][Classify]_vars

\* --------------------------------------------------------- raw-response cache
\* the sync worker that stores responses and two request threads that fetch
\* them; a body is told from every other by the number of the store
Threads == {"w1", "q1", "q2"}
RunIds == {1, 2}
NoBody == 0

ThreadIdle == [pc |-> "idle", id |-> 0, calls |-> 0, got |-> <<>>]

\* _cleanup_expired_cache at time t
cleanup_expired_cache(c, t) ==
    Drop(c, {k \in DOMAIN c : c[k].timestamp < t - CacheExpiryMinutes})

\* the body of "with _cache_lock" in store_raw_response
store_raw_response(c, sync_run_id, raw_json, t) ==
    cleanup_expired_cache(Put(c, sync_run_id, [data |-> raw_json, timestamp |-> t]), t)

\* get_raw_response that reads the entry and leaves it in the dictionary
get_raw_response_keeping(c, sync_run_id) ==
    [cache |-> c,
     ret |-> IF sync_run_id \in DOMAIN c THEN c[sync_run_id].data ELSE NoBody]

\* the body of "with _cache_lock" in get_raw_response: the dictionary after the
\* pop and the value returned
get_raw_response(c, sync_run_id) ==
    [cache |-> Drop(c, {sync_run_id}),
     ret |-> IF sync_run_id \in DOMAIN c THEN c[sync_run_id].data ELSE NoBody]

\* "with _cache_lock:" a thread enters store_raw_response or get_raw_response
\* for a sync run and takes the lock, which blocks while another holds it
CacheAcquire(t, sync_run_id) ==
    /\ thr[t].pc = "idle" /\ thr[t].calls < MaxCalls
    /\ cache_lock = None
    /\ cache_lock' = t
    /\ thr' = [thr EXCEPT ![t].pc = "locked", ![t].id = sync_run_id, ![t].calls = @ + 1]
    /\ UNCHANGED <<db, sess, mrg, job, res, env, now, raw_response_cache>>

\* store_raw_response, lines 27-32; the body stored is the number of the store
CacheStore(t) ==
    /\ t = "w1" /\ thr[t].pc = "locked"
    /\ raw_response_cache' =
           store_raw_response(raw_response_cache, thr[t].id, thr[t].calls, now)
    /\ thr' = [thr EXCEPT ![t].pc = "release"]
    /\ UNCHANGED <<db, sess, mrg, job, res, env, now, cache_lock>>

\* get_raw_response, lines 39-42; got lists the bodies the thread was returned
CacheGet(t) ==
    /\ t # "w1" /\ thr[t].pc = "locked"
    /\ LET r == get_raw_response(raw_response_cache, thr[t].id)
       IN  /\ raw_response_cache' = r.cache
           /\ thr' = [thr EXCEPT ![t].pc = "release",
                                 ![t].got = IF r.ret # NoBody THEN Append(@, r.ret) ELSE @]
    /\ UNCHANGED <<db, sess, mrg, job, res, env, now, cache_lock>>

\* the end of the with block
CacheRelease(t) ==
    /\ thr[t].pc = "release" /\ cache_lock = t
    /\ cache_lock' = None
    /\ thr' = [thr EXCEPT ![t].pc = "idle"]
    /\ UNCHANGED <<db, sess, mrg, job, res, env, now, raw_response_cache>>

\* minutes pass
CacheTick(minutes) ==
    /\ now + minutes <= Now0 + MaxCacheMinutes
    /\ now' = now + minutes
    /\ UNCHANGED <<db, sess, mrg, job, res, env, conc>>

CacheInit ==
    /\ db = EmptyDb /\ sess = EmptyDb /\ mrg = MergeIdle /\ job = JobIdle
    /\ res = NoRes /\ env = NoEnv /\ now = Now0
    /\ raw_response_cache = <<>> /\ cache_lock = None
    /\ thr = [t \in Threads |-> ThreadIdle]

CacheNext ==
    \/ \E t \in Threads, sync_run_id \in RunIds : CacheAcquire(t, sync_run_id)
    \/ \E t \in Threads : CacheStore(t)
    \/ \E t \in Threads : CacheGet(t)
    \/ \E t \in Threads : CacheRelease(t)
    \/ \E minutes \in {2, 4} : CacheTick(minutes)

CacheSpec == CacheInit /\ [][CacheNext]_vars

\* ------------------------------------------- two sync jobs of the same config
\* the scheduled job and a one-off job of one config run on two worker
\* threads; each calls process_account_balance for the records of its response
Workers == {"w1", "w2"}

WorkerIdle ==
    [pc |-> "idle", account_id |-> None, balance_date |-> 0, calls |-> 0,
     raised |-> FALSE]

\* an INSERT into account_balance without the unique index
create_account_balance_unindexed(d, account_id, balance_date) ==
    LET k == <<account_id, balance_date>>
    IN  [db |-> [d EXCEPT !.balances =
                    Put(@, k, IF k \in DOMAIN @ THEN @[k] + 1 ELSE 1)],
         raised |-> FALSE]

\* create_account_balance: INSERT and commit; the unique index
\* idx_account_balance_account_date refuses a second row of a key with
\* IntegrityError
create_account_balance(d, account_id, balance_date) ==
    LET k == <<account_id, balance_date>>
    IN  IF k \in DOMAIN d.balances
        THEN [db |-> d, raised |-> TRUE]
        ELSE [db |-> [d EXCEPT !.balances = Put(@, k, 1)], raised |-> FALSE]

\* process_account_balance, lines 720-744: the record has a balance-date and
\* the worker asks whether a row of that account and date exists; when one
\* does the function returns
BalanceQuery(t, account_id, balance_date) ==
    /\ thr[t].pc = "idle" /\ thr[t].calls < MaxCalls /\ ~thr[t].raised
    /\ thr' = [thr EXCEPT
           ![t] = [@ EXCEPT !.pc = IF <<account_id, balance_date>> \in DOMAIN db.balances
                                   THEN "idle" ELSE "insert",
                            !.account_id = account_id,
                            !.balance_date = balance_date,
                            !.calls = @ + 1]]
    /\ UNCHANGED <<db, sess, mrg, job, res, env, now, raw_response_cache, cache_lock>>

\* process_account_balance, lines 746-748; the IntegrityError leaves
\* process_sync_range and ends the run of the worker
BalanceInsert(t) ==
    /\ thr[t].pc = "insert"
    /\ LET r == create_account_balance(db, thr[t].account_id, thr[t].balance_date)
       IN  /\ db' = r.db
           /\ thr' = [thr EXCEPT ![t].pc = "idle", ![t].raised = r.raised]
    /\ UNCHANGED <<sess, mrg, job, res, env, now, raw_response_cache, cache_lock>>

\* the accounts of the response are stored, no balance is
BalanceInit ==
    /\ db = process_accounts(
                process_accounts(EmptyDb, AccountRecord("A1", <<>>, Now0), Now0),
                AccountRecord("A2", <<>>, Now0), Now0)
    /\ sess = EmptyDb /\ mrg = MergeIdle /\ job = JobIdle
    /\ res = NoRes /\ env = NoEnv /\ now = Now0
    /\ raw_response_cache = <<>> /\ cache_lock = None
    /\ thr = [t \in Workers |-> WorkerIdle]

BalanceNext ==
    \/ \E t \in Workers, account_id \in {"A1", "A2"}, balance_date \in {Now0 - 1, Now0} :
           BalanceQuery(t, account_id, balance_date)
    \/ \E t \in Workers : BalanceInsert(t)

BalanceSpec == BalanceInit /\ [][BalanceNext]_vars

\* ------------------------------------------------------------ specification
Init ==
    /\ db = EmptyDb
    /\ sess = EmptyDb
    /\ mrg = MergeIdle
    /\ job = JobIdle
    /\ res = NoRes
    /\ env = NoEnv
    /\ now = Now0
    /\ raw_response_cache = <<>> /\ cache_lock = None /\ thr = <<>>

Next ==
    \/ \E a \in AccountIds : \E txns \in Payloads(a) : ProcessSyncRange(a, txns)
    \/ \E a \in AccountIds : \E txns \in Payloads(a), f \in Reissues : Resync(a, txns, f)
    \/ \E id \in TxnIds : UpdateTransaction(id, 1)
    \/ \E s \in AccountIds, t \in AccountIds, p \in BOOLEAN : MergeBegin(s, t, p)
    \/ MergeTxn
    \/ MergeHoldings
    \/ MergeDeleteSource
    \/ MergeCommit
    \/ MergeFail

Spec == Init /\ [][Next]_vars

\* the routes, a sync of one recent transaction and the merge, over two accounts
TxnNext ==
    \/ \E a \in {"A1", "A2"} :
         \E txns \in {<<>>} \cup {<<x>> : x \in {y \in PayloadTxns :
                         y.id = "t1" /\ y.posted = RecentDay /\ y.description = "x"}} :
             ProcessSyncRange(a, txns)
    \/ \E id \in {"t2"}, a \in {"A1", "A3"}, payee \in {None, "Bob"}, splits \in SplitLists :
           CreateTransaction(id, a, payee, splits)
    \/ \E id \in TxnIds, amount \in {NoCat, 7}, unset \in BOOLEAN, splits \in SplitLists :
           UpdateTransactionBody(id, amount, IF unset THEN None ELSE splits)
    \/ \E s \in {"A1", "A2"}, t \in {"A1", "A2"}, p \in BOOLEAN : MergeBegin(s, t, p)
    \/ MergeTxn
    \/ MergeHoldings
    \/ MergeDeleteSource
    \/ MergeCommit
    \/ MergeFail

TxnSpec == Init /\ [][TxnNext]_vars

\* syncs, the account route and the batch classification
AccountNext ==
    \/ \E a \in AccountIds : \E txns \in Payloads(a) : ProcessSyncRange(a, txns)
    \/ \E id \in AccountIds, account_type \in {"loan", "credit_card"} :
           UpdateAccount(id, account_type)
    \/ ClassifyAccounts

AccountSpec == Init /\ [][AccountNext]_vars

\* ------------------------------------------------------------------ claims
\* the step in which merge_accounts commits and returns its statistics
MergeCommits == mrg.pc = "commit" /\ res'.op = "merge" /\ res'.status = "ok"

Count(d, a) == Cardinality(TxnsOf(d, a))

\* C1 (as claimed): a range synced twice, the second time with the same or
\* with re-issued transaction ids, stores exactly the transactions that
\* syncing it once stores.
C1_ResyncIdempotent ==
    res.op = "resync" => db.transactions = res.info.once

C3_OldTransactionsKept ==
    [][MergeCommits =>
         LET old == {i \in TxnsOf(db, mrg.source) :
                        db.transactions[i].posted < mrg.cutoff}
         IN  /\ mrg.stats.transactions_reassigned = Cardinality(old)
             /\ \A i \in old :
                   /\ i \in DOMAIN db'.transactions
                   /\ db'.transactions[i].account_id = mrg.target
                   /\ db'.transactions[i].splits = db.transactions[i].splits
                   /\ db'.transactions[i].payee_id = db.transactions[i].payee_id]_vars

\* C4: while merge_accounts is in flight, and when it fails, the database holds
\* exactly the state the merge started from; only the final commit changes it.
C4_MergeAtomic ==
    [][(mrg.pc # "idle" /\ ~MergeCommits) => db' = mrg.before /\ db = mrg.before]_vars

\* a merge failed after it had removed or reassigned source transactions
C4_Witness ==
    /\ res.op = "merge" /\ res.status = "error"
    /\ res.info.transactions_removed + res.info.transactions_reassigned > 0

\* C5: a merge whose source or target is missing, or whose accounts differ in
\* org_id or name, is rejected and changes nothing; a merge that gets past the
\* checks has both accounts, with the same org_id and name.
C5_RejectedBeforeMutation ==
    [][/\ (res'.op = "merge" /\ res'.status \in {"not_found", "mismatch"} /\ mrg.pc = "idle")
           => (db' = db /\ sess' = sess /\ mrg' = mrg)
       /\ (mrg.pc = "idle" /\ mrg'.pc # "idle")
           => /\ {mrg'.source, mrg'.target} \subseteq DOMAIN db.accounts
              /\ db.accounts[mrg'.source].org_id = db.accounts[mrg'.target].org_id
              /\ db.accounts[mrg'.source].name = db.accounts[mrg'.target].name]_vars

\* a merge of two stored accounts with different names was rejected while
\* transactions were stored
C5_Witness ==
    /\ res.op = "merge" /\ res.status = "mismatch"
    /\ DOMAIN db.transactions # {}

\* ------------------------------------------------------ claims on the sync job
Terminal == {"completed", "failed"}

\* C6: once its job has ended no SyncRun is left running, whatever happened
\* after its creation, and a status only goes from running to completed or
\* to failed
C6_RunsReachTerminal ==
    /\ [](job.pc = "idle" =>
              \A k \in 1..Len(db.runs) : db.runs[k].status \in Terminal)
    /\ [][\A k \in 1..Len(db.runs) :
              db'.runs[k].status # db.runs[k].status =>
                  db.runs[k].status = "running" /\ db'.runs[k].status \in Terminal]_vars

\* a step of run() in which process_sync_range or process_initial_sync raises
RunRaises ==
    /\ job.pc \in {"range", "initial"}
    /\ res'.op = "process_sync_range" /\ res'.status = "raised"

C8_ResumableInitialSync ==
    (/\ job.pc = "idle" /\ Len(job.log) = 2
     /\ job.log[1].mode = "initial" /\ job.log[1].outcome = "raised"
     /\ job.log[2].mode = "initial" /\ job.log[2].outcome = "completed"
     /\ job.log[1].accounts = env.accounts /\ job.log[2].accounts = env.accounts)
    => DOMAIN db.transactions =
           DOMAIN process_initial_sync(
                      [EmptyDb EXCEPT !.config = db.config],
                      [JobIdle EXCEPT !.end = MonthStart(now)]).transactions

\* the stopping condition of the walk-back over the calls made so far
Stopped(calls) ==
    \/ /\ Len(calls) >= 2
       /\ calls[Len(calls)].total = 0
       /\ calls[Len(calls) - 1].total = 0
    \/ env.max_months # 0 /\ Len(calls) >= env.max_months

\* the months from the oldest remote transaction to the current month
HistoryMonths ==
    IF env.ledger = {} THEN 0
    ELSE LET oldest == CHOOSE i \in env.ledger :
                           \A k \in env.ledger : LedgerRow(i).posted <= LedgerRow(k).posted
         IN  (MonthStart(Now0 + MaxTicks) - MonthStart(LedgerRow(oldest).posted)) \div MonthLen

RangeReturns ==
    /\ job.pc \in {"range", "initial"}
    /\ res'.op = "process_sync_range" /\ res'.status = "returned"

\* C10: when a response fetched during a run carries errors alongside
\* accounts, the errors are stored on the config, the accounts of the response
\* are ingested and the run goes on; a run in which nothing raises ends
\* completed with last_sync advanced
C10_RowErrorsNonFatal ==
    /\ [][(RangeReturns /\ res'.info.call.accounts # {}) =>
              /\ res'.info.call.errors # <<>> =>
                     /\ res'.info.call.walk_errors = <<>> =>
                            db'.config.errors = res'.info.call.errors
                     /\ res'.info.call.accounts \subseteq DOMAIN db'.accounts
                     /\ job'.pc # "idle"
              /\ res'.info.call.walk_errors # <<>> =>
                     db'.config.errors = res'.info.call.walk_errors]_vars
    /\ [](/\ job.pc = "idle" /\ job.log # <<>>
           /\ job.log[Len(job.log)].errors
           /\ job.log[Len(job.log)].outcome # "raised"
           => /\ db.runs[job.log[Len(job.log)].run].status = "completed"
              /\ db.config.last_sync = db.runs[job.log[Len(job.log)].run].completed_at)

\* C20: for distinct accounts merge_accounts returns transactions_matched equal
\* to the number of source transactions posted at or after the cutoff whose
\* (posted, amount, description) a target transaction has, whatever
\* preserve_categorization is, and transactions_removed equal to the number of
\* source transactions posted at or after the cutoff, all of which are deleted
C20_MatchedWhateverPreserve ==
    [][(MergeCommits /\ mrg.source # mrg.target) =>
         LET recent == {i \in TxnsOf(db, mrg.source) :
                           db.transactions[i].posted >= mrg.cutoff}
         IN  /\ mrg.stats.transactions_matched =
                   Cardinality({i \in recent : NaturalKey(db.transactions[i])
                                                  \in TargetKeys(db, mrg.target)})
             /\ mrg.stats.transactions_removed = Cardinality(recent)
             /\ recent \cap DOMAIN db'.transactions = {}]_vars

\* ------------------------------------------------ claims on the transaction routes
\* a create_transaction call whose splits are not empty and do not add up to
\* the amount has returned
MismatchedCreate ==
    /\ res.op = "create_transaction" /\ res.status # "error"
    /\ res.info.splits # <<>>
    /\ SeqSum(res.info.splits) # res.info.amount

\* C11: create_transaction with a non-empty list of splits whose amounts do not
\* add up to the amount of the transaction fails with SplitMismatchError and
\* stores nothing: no transaction, no split, no new payee
C11_MismatchRejected ==
    [][MismatchedCreate' /\ res'.op = "create_transaction" /\ mrg.pc = "idle"
         /\ res' # res
         => /\ res'.status = "split_mismatch"
            /\ db' = db]_vars

\* C12: every stored transaction with at least one split has splits that add
\* up to its amount, and a transaction a sync creates has exactly one split,
\* of category 0 and of the full amount
C12_SplitSum ==
    /\ [](\A i \in DOMAIN db.transactions :
             db.transactions[i].splits # <<>> =>
                 SeqSum(db.transactions[i].splits) = db.transactions[i].amount)
    /\ [][res'.op = "sync_range" =>
             \A i \in DOMAIN db'.transactions \ DOMAIN db.transactions :
                 db'.transactions[i].splits =
                     <<[category_id |-> 0, amount |-> db'.transactions[i].amount]>>]_vars

\* C15: a stored account_type that is not null is changed by no sync ingestion
\* and by no batch classification, only by an update_account that carries
\* account_type
C15_TypeKept ==
    [][\A a \in DOMAIN db.accounts :
          /\ a \in DOMAIN db'.accounts
          /\ db.accounts[a].account_type # None
               => \/ db'.accounts[a].account_type = db.accounts[a].account_type
                  \/ /\ res'.op = "update_account" /\ res'.info.id = a
                     /\ db'.accounts[a].account_type = res'.info.account_type]_vars

\* the batch classification gave the untyped Visa account a type and left the
\* type the user had set on a synced Checking account with transactions
C15_Witness ==
    /\ res.op = "classify_accounts" /\ res.status = "ok"
    /\ "A1" \in DOMAIN db.accounts /\ db.accounts["A1"].account_type = "loan"
    /\ TxnsOf(db, "A1") # {}
    /\ db.accounts["A3"].account_type = "credit_card"

\* the cascade as the specification orders it, over the keys of the record
Cascade(acct) ==
    LET kw == KeywordsIn(acct["name"])
        has_balance == "balance" \in DOMAIN acct /\ parse_float(acct["balance"]).ok
        balance == parse_float(acct["balance"]).value
        has_avail == "available-balance" \in DOMAIN acct
        avail == parse_float(acct["available-balance"]).value
    IN  IF acct["holdings"] # <<>> THEN "investment"
        ELSE IF "investment" \in kw THEN "investment"
        ELSE IF "credit" \in kw THEN "credit_card"
        ELSE IF "bank" \in kw THEN "bank"
        ELSE IF has_balance /\ ~has_avail /\ balance <= 0 THEN "credit_card"
        ELSE IF has_balance /\ balance >= 0 /\ (~has_avail \/ avail >= 0) THEN "bank"
        ELSE None

\* C18: classify_account gives what the ordered cascade gives for every record
\* the aggregator delivers: holdings first, then the investment, credit and
\* bank keywords, then the balance rules over "balance" and
\* "available-balance", else null
C18_CascadeOrder ==
    res.op = "classify_account" => res.info.type = Cascade(env)

\* the older of A1 and A2: created_at ascending, nulls last, then the id
C17Older ==
    LET c1 == db.accounts["A1"].created_at
        c2 == db.accounts["A2"].created_at
    IN  IF c1 = c2 \/ c2 = NoDay THEN "A1"
        ELSE IF c1 = NoDay THEN "A2"
        ELSE IF c1 < c2 THEN "A1" ELSE "A2"

\* the sample_size most recent transactions of the older account, and how many
\* of them the newer account has by (posted, amount, description)
C17Sample ==
    {i \in TxnsOf(db, C17Older) :
        Cardinality({j \in TxnsOf(db, C17Older) :
                        db.transactions[j].posted > db.transactions[i].posted})
          < SampleSize}

C17Matches ==
    Cardinality({i \in C17Sample :
        \E j \in TxnsOf(db, CHOOSE a \in {"A1", "A2"} : a # C17Older) :
            /\ db.transactions[j].posted = db.transactions[i].posted
            /\ db.transactions[j].amount = db.transactions[i].amount
            /\ db.transactions[j].description = db.transactions[i].description})

\* C17: two accounts of one (org_id, name) are reported as duplicates if and
\* only if the older one has a transaction and the share of its sampled
\* transactions that the newer one holds is at least min_match_ratio
C17_PairTest ==
    res.op = "find_duplicate_accounts" =>
        res.info.accounts =
            IF C17Sample # {} /\ C17Matches * RatioDen >= RatioNum * Cardinality(C17Sample)
            THEN {"A1", "A2"} ELSE {}

\* four of the five sampled transactions matched and the pair was reported
C17_Witness ==
    /\ res.op = "find_duplicate_accounts"
    /\ Cardinality(C17Sample) = 5 /\ C17Matches = 4
    /\ res.info.accounts = {"A1", "A2"}

\* the accounts linked to a by a chain of at most n passing pairs
RECURSIVE Linked(_, _)
Linked(a, n) ==
    IF n = 0 THEN {a}
    ELSE LET near == Linked(a, n - 1)
         IN  near \cup {b \in 1..MaxGroup :
                           \E c \in near : <<b, c>> \in env \/ <<c, b>> \in env}

\* C19: for three or more accounts of one (org_id, name) the groups returned
\* are exactly the connected components, of two accounts or more, of the graph
\* of the passing pairs, and no account is in two groups
C19_TransitiveGroups ==
    res.op = "group" =>
        LET groups == res.info.groups
            components == {Linked(a, MaxGroup) : a \in 1..MaxGroup} \
                          {{a} : a \in 1..MaxGroup}
        IN  /\ Range(groups) = components
            /\ \A k \in 1..Len(groups), m \in 1..Len(groups) :
                   k # m => groups[k] \cap groups[m] = {}

\* ------------------------------------------------- claims on the raw-response cache
\* the bodies returned so far, as (thread, position) pairs
Returned == {x \in Threads \X (1..MaxCalls) : x[2] <= Len(thr[x[1]].got)}

\* C13: a stored body is returned by at most one get_raw_response call, every
\* other call for the id returns null until the id is stored again; and the
\* dictionary is read or written only by the thread that holds the lock
C13_PopOnce ==
    /\ [](\A x \in Returned, y \in Returned :
              x # y => thr[x[1]].got[x[2]] # thr[y[1]].got[y[2]])
    /\ [](\A t \in Threads : thr[t].pc # "idle" => cache_lock = t)
    /\ [][raw_response_cache' # raw_response_cache =>
              /\ cache_lock \in Threads /\ cache_lock' = cache_lock
              /\ thr[cache_lock].pc = "locked"
              /\ \A t \in Threads \ {cache_lock} : thr'[t] = thr[t]]_vars

\* both request threads asked for the same sync run after one store, one was
\* returned the body and the other null
C13_Witness ==
    /\ thr["q1"].got = <<1>> /\ thr["q2"].got = <<>>
    /\ thr["q1"].id = thr["q2"].id /\ thr["q2"].pc = "release"
    /\ thr["w1"].calls = 1

\* C14: get_raw_response never returns a body stored more than five minutes
\* earlier, whether or not another store happened in between
C14_ExpiredNotReturned ==
    [][\A t \in Threads :
          Len(thr'[t].got) > Len(thr[t].got) =>
              now - raw_response_cache[thr[t].id].timestamp <= CacheExpiryMinutes]_vars

C21Record(a) ==
    [k \in {"name", "holdings"} |->
        IF k = "name" THEN ProviderName(a) ELSE ProviderHoldings(a)]

\* C21: an account that ingestion sights for the first time is stored with the
\* type classify_account gives for its record, when that type is not null
C21_ClassifiedOnUpsert ==
    [][\A a \in AccountIds :
          (/\ a \notin DOMAIN db.accounts
           /\ a \in DOMAIN db'.accounts
           /\ classify_account(C21Record(a)) # None)
          => db'.accounts[a].account_type = classify_account(C21Record(a))]_vars

\* the database at the moment handle_new_account is called for account a: the
\* records of the response up to a's are ingested, the new accounts before a
\* are onboarded
RECURSIVE C22Mid(_, _, _, _, _)
C22Mid(d, accounts, new, start, a) ==
    IF accounts = <<>> THEN d
    ELSE LET r == ingest_account(d, Head(accounts), now)
         IN  IF Head(accounts).id = a THEN r.db
             ELSE C22Mid(IF Head(accounts).id \in new
                         THEN handle_new_account(r.db, Head(accounts).id, start, 0).db
                         ELSE r.db,
                         Tail(accounts), new, start, a)

\* C22: in an incremental sync a newly seen account that is reported as a
\* duplicate once its overlap-window data is ingested gets no walk-back fetch,
\* nothing is merged, and it and every other account stay stored with their
\* own transactions
C22_DuplicateStops ==
    [][(/\ job.pc = "range" /\ job.mode = "incremental"
        /\ res'.op = "process_sync_range" /\ res'.status = "returned") =>
          LET new == env.accounts \ DOMAIN db.accounts
              start == db.config.last_sync - 1
              mid(a) == C22Mid(db, RemoteResponse(start, now, now), new, start, a)
              dups == {a \in new : a \in find_duplicate_accounts(mid(a))}
          IN  /\ (new # {} /\ dups = new) => res'.info.call.walks = 0
              /\ mrg' = mrg
              /\ \A a \in dups :
                     /\ a \in DOMAIN db'.accounts
                     /\ TxnsOf(db', a) = TxnsOf(mid(a), a)
                     /\ \A b \in DOMAIN mid(a).accounts :
                            /\ b \in DOMAIN db'.accounts
                            /\ TxnsOf(mid(a), b) \subseteq TxnsOf(db', b)]_vars

\* an incremental sync met the new account A2, which duplicates A1, and
\* returned without a walk-back fetch
C22_Witness ==
    /\ res.op = "process_sync_range" /\ res.status = "returned"
    /\ job.mode = "incremental" /\ job.pc = "finish"
    /\ res.info.call.new = {"A2"}
    /\ "A2" \in find_duplicate_accounts(db)
    /\ TxnsOf(db, "A1") # {} /\ TxnsOf(db, "A2") # {}
    /\ res.info.call.walks = 0

\* C23: a run with from_date makes one fetch from from_date to now, whether or
\* not last_sync is set, and onboards no account; a run without from_date and
\* with last_sync makes one fetch from last_sync - 1 day to now and onboards
\* the accounts of the payload that have no local record; a run with neither
\* walks back month by month and onboards no account
C23_ModeSelection ==
    /\ [](job.pc \in {"range", "initial", "finish"} =>
              /\ job.mode = IF job.from_date # NoDay THEN "manual"
                            ELSE IF job.last_sync0 # NoDay THEN "incremental"
                            ELSE "initial"
              /\ job.pc = "range" => job.mode # "initial" /\ job.calls = <<>>
              /\ job.pc = "initial" => job.mode = "initial"
              /\ (job.pc = "finish" /\ job.mode # "initial") => Len(job.calls) = 1)
    /\ [][(job.pc \in {"range", "initial"} /\ res'.op = "process_sync_range") =>
              LET c == res'.info.call
              IN  /\ job.mode = "manual" =>
                         /\ c.start = job.from_date /\ c.end = now
                         /\ c.new = {} /\ c.walks = 0
                  /\ job.mode = "incremental" =>
                         /\ c.start = job.last_sync0 - 1 /\ c.end = now
                         /\ res'.status = "returned" =>
                                c.new = env.accounts \ DOMAIN db.accounts
                  /\ job.mode = "initial" => c.new = {} /\ c.walks = 0]_vars

\* a manual run, made when last_sync was set, fetched a payload with an
\* account that had no local record
C23_Witness ==
    /\ res.op = "process_sync_range" /\ res.status = "returned"
    /\ job.mode = "manual" /\ job.last_sync0 # NoDay
    /\ res.info.call.accounts # {}
    /\ \E a \in res.info.call.accounts : db.accounts[a].created_at = now
    /\ Len(job.log) = 1 /\ job.log[1].accounts = {}

\* C24: a payee that ingestion creates from a transaction with a description
\* on a loan account gets the category Transfer when that category exists, and
\* the payees stored before keep their category
C24_LoanPayeeTransfer ==
    [][res'.op = "sync_range" =>
          /\ \A p \in DOMAIN db.payees : db'.payees[p] = db.payees[p]
          /\ \A i \in DOMAIN db'.transactions \ DOMAIN db.transactions :
                 LET txn == db'.transactions[i]
                 IN  (/\ txn.payee_id # None
                      /\ txn.payee_id \notin DOMAIN db.payees
                      /\ txn.account_id \in DOMAIN db.accounts
                      /\ db.accounts[txn.account_id].account_type = "loan"
                      /\ txn.description \notin {None, ""}
                      /\ "Transfer" \in DOMAIN db.categories)
                     => db'.payees[txn.payee_id] = db.categories["Transfer"]]_vars

\* C25: after a merge that succeeds, for any pair of accounts its preconditions
\* accept, the target account is stored and every transaction it had before
\* the merge is stored under it
C25_TargetKept ==
    [][MergeCommits =>
          /\ mrg.target \in DOMAIN db'.accounts
          /\ \A i \in TxnsOf(mrg.before, mrg.target) :
                 /\ i \in DOMAIN db'.transactions
                 /\ db'.transactions[i].account_id = mrg.target]_vars

\* C26: every stored transaction that carries a content hash carries the hash
\* of its current account, posted date, amount and description
C26_HashOfCurrentAccount ==
    \A i \in DOMAIN db.transactions :
        db.transactions[i].content_hash # <<>> =>
            db.transactions[i].content_hash =
                compute_transaction_hash(db.transactions[i].account_id,
                                         db.transactions[i].posted,
                                         db.transactions[i].amount,
                                         db.transactions[i].description)

\* C27: after an initial sync and the incremental sync that follows it, both
\* completed against the same linked accounts, every remote transaction of a
\* linked account posted from the start of the month of the initial sync up to
\* the time of the incremental sync is stored
C27_NoGap ==
    (/\ job.pc = "idle" /\ Len(job.log) = 2
     /\ job.log[1].mode = "initial" /\ job.log[1].outcome = "completed"
     /\ job.log[2].mode = "incremental" /\ job.log[2].outcome = "completed"
     /\ job.log[1].accounts = env.accounts /\ job.log[2].accounts = env.accounts)
    => \A i \in env.ledger :
           (/\ LedgerRow(i).account \in env.accounts
            /\ MonthStart(db.runs[1].completed_at) <= LedgerRow(i).posted
            /\ LedgerRow(i).posted < db.runs[2].completed_at)
           => i \in DOMAIN db.transactions

\* C28: ingesting a payload never modifies or deletes a stored transaction: a
\* transaction delivered again, under its id or under another id with the
\* same content, keeps its account, amount, payee and splits
C28_InsertOnly ==
    [][res'.op \in {"sync_range", "resync"} =>
          \A i \in DOMAIN db.transactions :
              /\ i \in DOMAIN db'.transactions
              /\ db'.transactions[i] = db.transactions[i]]_vars

\* a payload was delivered under re-issued ids while every transaction of it
\* was stored, one of them re-categorised by the user
C28_Witness ==
    /\ res.op = "resync" /\ res.info.reissued /\ res.info.first = 0
    /\ \E i \in DOMAIN db.transactions : db.transactions[i].splits[1].category_id = 1

\* account a was first seen by the incremental range call that just ended, and
\* is not reported as a duplicate
FirstSeen(a) ==
    /\ res.op = "process_sync_range" /\ job.log # <<>>
    /\ a \in res.info.call.new
    /\ a \in DOMAIN db.accounts
    /\ a \notin find_duplicate_accounts(db)

\* the history of a is stored: its remote transactions, none of which is
\* separated from the next by two months without any
Backfilled(a) ==
    \A i \in env.ledger : LedgerRow(i).account = a => i \in DOMAIN db.transactions

\* the scheduler has fired its last job and that job did not complete
NoLaterSuccess ==
    /\ job.pc = "idle" /\ Len(db.runs) = BackfillRuns
    /\ job.log[Len(job.log)].outcome # "completed"

\* C29: an account first seen during an incremental sync and not reported as a
\* duplicate eventually has its history stored, also when a walk-back fetch
\* failed that run, provided a later run succeeds
C29_BackfillCompletes ==
    \A a \in Range(SyncAccounts) :
        FirstSeen(a) ~> (Backfilled(a) \/ NoLaterSuccess)

\* transactions_found of the first k runs, added up
RECURSIVE FoundUpTo(_)
FoundUpTo(k) ==
    IF k = 0 THEN 0 ELSE db.runs[k].transactions_found + FoundUpTo(k - 1)

\* the per-account transaction counts of a run's details, added up
RECURSIVE DetailsSum(_, _)
DetailsSum(details, accounts) ==
    IF accounts = <<>> THEN 0
    ELSE (IF Head(accounts) \in DOMAIN details
          THEN details[Head(accounts)].transactions ELSE 0)
         + DetailsSum(details, Tail(accounts))

\* C30: every completed run reports in transactions_found the number of
\* transactions it created, walk-back included, so that while all runs have
\* completed the stored transactions are as many as the runs found together,
\* and the counts in details add up to transactions_found
C30_StatsExact ==
    (/\ job.pc = "idle"
     /\ \A k \in 1..Len(db.runs) : db.runs[k].status = "completed")
    => /\ FoundUpTo(Len(db.runs)) = Cardinality(DOMAIN db.transactions)
       /\ \A k \in 1..Len(db.runs) :
              DetailsSum(db.runs[k].details, SyncAccounts) = db.runs[k].transactions_found
====
